---- MODULE Spec2Model ----
(***************************************************************************)
(* Department hierarchy (src/app.py): a name-addressed tree of             *)
(* DepartmentNode objects, a priority heap of (priority, name) pairs, and  *)
(* the data file that save_data rewrites after a mutating request.         *)
(***************************************************************************)
EXTENDS Integers, Sequences, FiniteSets, TLC

VARIABLES obj, root, nodes, heap, data_file, last

vars == <<obj, root, nodes, heap, data_file, last>>

(***************************************************************************)
(* Input domains and bounds                                                *)
(***************************************************************************)
\* How many department names requests are made with.
NumNames == 3

\* The names (non-empty strings), in Python's string order.
NameOrder == SubSeq(<<"A", "B", "C", "D", "E", "F">>, 1, NumNames)

Names == {NameOrder[i] : i \in DOMAIN NameOrder}

NameRank(k) == CHOOSE i \in DOMAIN NameOrder : NameOrder[i] = k

\* Python's None for a string argument, the empty string, None for an object.
NoneStr == "<None>"
EmptyStr == ""
NoneObj == 0

\* Python numbers keep their type: int(x) and float(x) change it.
I(v) == [k |-> "int", v |-> v]
F(v) == [k |-> "float", v |-> v]
NoneNum == [k |-> "none", v |-> 0]

int(x) == I(x.v)
float(x) == F(x.v)

\* DepartmentNode objects live at addresses; an address is free when no
\* reference to it is left.  A deleted subtree can stay referenced by root
\* only, so twice the number of mapped nodes is enough.
NodeIds == 1 .. (2 * Cardinality(Names))

Range(s) == {s[i] : i \in DOMAIN s}

Blank ==
  [name |-> NoneStr, head |-> EmptyStr, employees |-> I(0), budget |-> I(0),
   perf |-> I(0), children |-> <<>>]

DepartmentNode(name, head, employees, budget, perf) ==
  [name |-> name, head |-> head, employees |-> employees, budget |-> budget,
   perf |-> perf, children |-> <<>>]

\* The memory of a DepartmentHierarchy: its two fields and the objects.
Mem(o, r, n) == [obj |-> o, root |-> r, nodes |-> n]

RECURSIVE Closure(_, _)
Closure(o, S) ==
  LET N == S \cup UNION {Range(o[i].children) : i \in S}
  IN IF N = S THEN S ELSE Closure(o, N)

\* Objects some reference still leads to.
Live(m) ==
  Closure(m.obj, Range(m.nodes) \cup (IF m.root = NoneObj THEN {} ELSE {m.root}))

\* The mapped names in order, and the objects they map to.
RECURSIVE SortedNames(_)
SortedNames(S) ==
  IF S = {} THEN <<>>
  ELSE LET k == CHOOSE x \in S : \A y \in S : NameRank(x) <= NameRank(y)
       IN <<k>> \o SortedNames(S \ {k})

\* Depth-first order of the objects reached from stack, after those in out.
RECURSIVE Visit(_, _, _)
Visit(o, stack, out) ==
  IF stack = <<>> THEN out
  ELSE LET x == Head(stack)
       IN IF x \in Range(out)
          THEN Visit(o, Tail(stack), out)
          ELSE Visit(o, o[x].children \o Tail(stack), Append(out, x))

RECURSIVE Concat(_)
Concat(ss) == IF ss = <<>> THEN <<>> ELSE Head(ss) \o Concat(Tail(ss))

\* Addresses are not observable: unreferenced objects are reclaimed and the
\* live ones are kept at the first addresses, mapped nodes in name order and
\* then the others in depth-first order.
Collect(m) ==
  LET ks == SortedNames(DOMAIN m.nodes)
      mapped == [j \in DOMAIN ks |-> m.nodes[ks[j]]]
      starts == Concat([j \in DOMAIN mapped |-> m.obj[mapped[j]].children])
                  \o (IF m.root = NoneObj THEN <<>> ELSE <<m.root>>)
      order == Visit(m.obj, starts, mapped)
      at(i) == CHOOSE j \in DOMAIN order : order[j] = i
      move(i) == [m.obj[i] EXCEPT
                    !.children = [c \in DOMAIN @ |-> at(@[c])]]
  IN [obj |-> [j \in NodeIds |-> IF j \in DOMAIN order THEN move(order[j]) ELSE Blank],
      root |-> IF m.root = NoneObj THEN NoneObj ELSE at(m.root),
      nodes |-> [k \in DOMAIN m.nodes |-> at(m.nodes[k])]]

NewId(m) ==
  LET free == NodeIds \ Live(m)
  IN CHOOSE i \in free : \A j \in free : i <= j

(***************************************************************************)
(* DepartmentHierarchy                                                     *)
(***************************************************************************)
\* add, past its check: the new node is registered and then attached.  The
\* parent is looked up in the mapping that holds the new name already, so a
\* parent equal to the name is the new node itself.
add_new(m, name, parent, head, employees, budget, perf) ==
  LET id == NewId(m)
      o1 == [m.obj EXCEPT ![id] = DepartmentNode(name, head, employees, budget, perf)]
      n1 == [k \in DOMAIN m.nodes \cup {name} |->
               IF k = name THEN id ELSE m.nodes[k]]
      m1 == [obj |-> o1, root |-> m.root, nodes |-> n1]
  IN IF parent = NoneStr \/ parent = EmptyStr \/ parent \notin DOMAIN n1
     THEN (IF m.root = NoneObj THEN [m1 EXCEPT !.root = id] ELSE m1)
     ELSE [m1 EXCEPT !.obj[n1[parent]].children = Append(@, id)]

\* add without its test of the name: what C9 rules out.
add_unchecked(m, name, parent, head, employees, budget, perf) ==
  [ok |-> TRUE, m |-> add_new(m, name, parent, head, employees, budget, perf)]

\* add: returns [ok, m].
add(m, name, parent, head, employees, budget, perf) ==
  IF name \in DOMAIN m.nodes
  THEN [ok |-> FALSE, m |-> m]
  ELSE [ok |-> TRUE, m |-> add_new(m, name, parent, head, employees, budget, perf)]

\* find_parent_and_remove left out: what C18 rules out.
keep_parent_links(m, name) == m

\* find_parent_and_remove: every mapped node drops its children named name.
find_parent_and_remove(m, name) ==
  LET mapped == Range(m.nodes)
      keep(c) == m.obj[c].name # name
  IN [m EXCEPT !.obj = [i \in NodeIds |->
        IF i \in mapped
        THEN [m.obj[i] EXCEPT !.children = SelectSeq(@, keep)]
        ELSE m.obj[i]]]

\* The names of a child sequence, in order.
ChildNames(o, id) == [j \in DOMAIN o[id].children |-> o[o[id].children[j]].name]

\* delete's worklist: to_delete grows by the children of each name it visits.
\* A list longer than fuel stands for a loop that never ends.
DeleteFuel == 4 * Cardinality(NodeIds)

\* A worklist that never grows: what C4 rules out.
collect_target_only(m, to_delete, i) ==
  [list |-> to_delete, diverged |-> FALSE]

RECURSIVE collect(_, _, _)
collect(m, to_delete, i) ==
  IF i > Len(to_delete) THEN [list |-> to_delete, diverged |-> FALSE]
  ELSE IF Len(to_delete) > DeleteFuel THEN [list |-> to_delete, diverged |-> TRUE]
  ELSE
    LET cur == to_delete[i]
    IN IF cur \in DOMAIN m.nodes
       THEN collect(m, to_delete \o ChildNames(m.obj, m.nodes[cur]), i + 1)
       ELSE collect(m, to_delete, i + 1)

\* delete: returns [ok, m, diverged, to_delete]; to_delete is the worklist
\* as the loop left it.
delete(m, name) ==
  IF name \notin DOMAIN m.nodes
  THEN [ok |-> FALSE, m |-> m, diverged |-> FALSE, to_delete |-> <<>>]
  ELSE
    LET m1 == IF m.root # NoneObj /\ m.obj[m.root].name = name
              THEN [m EXCEPT !.root = NoneObj] ELSE m
        m2 == find_parent_and_remove(m1, name)
        w  == collect(m2, <<name>>, 1)
        gone == Range(w.list)
        n3 == [k \in DOMAIN m2.nodes \ gone |-> m2.nodes[k]]
    IN [ok |-> TRUE, m |-> [m2 EXCEPT !.nodes = n3], diverged |-> w.diverged,
        to_delete |-> w.list]

\* An update that resets the fields not given to their defaults: what C17
\* rules out.
update_meta_reset(m, id, head, employees, budget, perf) ==
  [m EXCEPT !.obj[id] =
     [@ EXCEPT !.head = IF head # NoneStr THEN head ELSE EmptyStr,
               !.employees = IF employees # NoneNum THEN int(employees) ELSE I(0),
               !.budget = IF budget # NoneNum THEN float(budget) ELSE I(0),
               !.perf = IF perf # NoneNum THEN float(perf) ELSE I(0)]]

\* edit, "update meta": the fields given (not None) are set, the numeric
\* ones through int() and float().
update_meta(m, id, head, employees, budget, perf) ==
  [m EXCEPT !.obj[id] =
     [@ EXCEPT !.head = IF head # NoneStr THEN head ELSE @,
               !.employees = IF employees # NoneNum THEN int(employees) ELSE @,
               !.budget = IF budget # NoneNum THEN float(budget) ELSE @,
               !.perf = IF perf # NoneNum THEN float(perf) ELSE @]]

\* edit, "move mapping": the node takes the new name, the mapping's key
\* moves, and every child of a mapped node that carries the old name is
\* renamed.
rename(m, id, name, new_name) ==
  LET o2 == [m.obj EXCEPT ![id].name = new_name]
      n2 == [k \in (DOMAIN m.nodes \ {name}) \cup {new_name} |->
               IF k = new_name THEN id ELSE m.nodes[k]]
      kids == UNION {Range(o2[i].children) : i \in Range(n2)}
      o3 == [i \in NodeIds |->
               IF i \in kids /\ o2[i].name = name
               THEN [o2[i] EXCEPT !.name = new_name] ELSE o2[i]]
  IN [m EXCEPT !.obj = o3, !.nodes = n2]

\* edit, "parent reassign": the node leaves every child sequence, then is
\* appended to the parent's, or becomes the root if there is none.
reparent(m, id, parent) ==
  LET m4 == find_parent_and_remove(m, m.obj[id].name)
  IN IF parent = EmptyStr \/ parent \notin DOMAIN m4.nodes
     THEN (IF m4.root = NoneObj THEN [m4 EXCEPT !.root = id] ELSE m4)
     ELSE [m4 EXCEPT !.obj[m4.nodes[parent]].children = Append(@, id)]

\* "if new_name and new_name != name"
Renaming(name, new_name) ==
  new_name # NoneStr /\ new_name # EmptyStr /\ new_name # name

\* edit: returns [ok, m].  The fields are set first, then the rename, then
\* the reparent.
edit(m, name, new_name, head, employees, budget, perf, parent) ==
  IF name \notin DOMAIN m.nodes
  THEN [ok |-> FALSE, m |-> m]
  ELSE
    LET id == m.nodes[name]
        m1 == update_meta(m, id, head, employees, budget, perf)
    IN IF Renaming(name, new_name) /\ new_name \in DOMAIN m1.nodes
       THEN [ok |-> FALSE, m |-> m1]
       ELSE
         LET m3 == IF Renaming(name, new_name) THEN rename(m1, id, name, new_name) ELSE m1
         IN [ok |-> TRUE, m |-> IF parent # NoneStr THEN reparent(m3, id, parent) ELSE m3]

\* Objects reached from id by one or more child links.
Descendants(o, id) == Closure(o, Range(o[id].children))

\* to_dict of one node: its attributes and its serialized children, in order.
RECURSIVE to_dict_node(_, _)
to_dict_node(o, id) ==
  [name |-> o[id].name, head |-> o[id].head, employees |-> o[id].employees,
   budget |-> o[id].budget, perf |-> o[id].perf,
   children |-> [j \in DOMAIN o[id].children |-> to_dict_node(o, o[id].children[j])]]

\* The empty dict.
EmptyDict == <<>>

\* to_dict: returns [ok, dict].  With no root the dict is empty; with a cycle
\* of child links below the root the recursion never ends and Python raises
\* RecursionError (ok is FALSE).
to_dict(m) ==
  IF m.root = NoneObj THEN [ok |-> TRUE, dict |-> EmptyDict]
  ELSE IF \E i \in Closure(m.obj, {m.root}) : i \in Descendants(m.obj, i)
       THEN [ok |-> FALSE, dict |-> EmptyDict]
       ELSE [ok |-> TRUE, dict |-> to_dict_node(m.obj, m.root)]

\* A DepartmentHierarchy as constructed.
Fresh == Mem([i \in NodeIds |-> Blank], NoneObj, <<>>)

\* load_data's build: add for the node, then build for each child with the
\* node's name as parent; nothing for an empty dict.
RECURSIVE build(_, _, _)
RECURSIVE build_children(_, _, _)
build(m, node, parent) ==
  IF node = EmptyDict THEN m
  ELSE build_children(
         add(m, node.name, parent, node.head, node.employees, node.budget, node.perf).m,
         node.children, node.name)

build_children(m, cs, parent) ==
  IF cs = <<>> THEN m
  ELSE build_children(build(m, Head(cs), parent), Tail(cs), parent)

(***************************************************************************)
(* DepartmentHeap: a heapq list of (priority, name) pairs                  *)
(***************************************************************************)
\* Python's order on (priority, name) tuples.
Lt(a, b) == a[1] < b[1] \/ (a[1] = b[1] /\ NameRank(a[2]) < NameRank(b[2]))

\* heapq._siftdown: the item at pos moves up past every larger parent.
\* Positions count from 1.
RECURSIVE siftdown(_, _, _, _)
siftdown(h, startpos, pos, newitem) ==
  IF pos > startpos /\ Lt(newitem, h[pos \div 2])
  THEN siftdown([h EXCEPT ![pos] = h[pos \div 2]], startpos, pos \div 2, newitem)
  ELSE [h EXCEPT ![pos] = newitem]

\* heapq._siftup: the smaller child moves up until a leaf is reached, then
\* the item is sifted down from there.
RECURSIVE siftup_loop(_, _, _, _)
siftup_loop(h, startpos, pos, newitem) ==
  LET childpos == 2 * pos
      rightpos == childpos + 1
      c == IF rightpos <= Len(h) /\ ~Lt(h[childpos], h[rightpos])
           THEN rightpos ELSE childpos
  IN IF childpos <= Len(h)
     THEN siftup_loop([h EXCEPT ![pos] = h[c]], startpos, c, newitem)
     ELSE siftdown(h, startpos, pos, newitem)

siftup(h, pos) == siftup_loop(h, pos, pos, h[pos])

heappush(h, item) == siftdown(Append(h, item), 1, Len(h) + 1, item)

\* heapq.heapify: siftup at every position from the middle down to the first.
RECURSIVE heapify_from(_, _)
heapify_from(h, i) == IF i < 1 THEN h ELSE heapify_from(siftup(h, i), i - 1)

heapify(h) == heapify_from(h, Len(h) \div 2)

\* DepartmentHeap.add
heap_add(h, priority, name) == heappush(h, <<priority, name>>)

\* A remove that takes out the first pair of the name only: what C11 rules
\* out.
heap_remove_first_only(h, name) ==
  LET hits == {i \in DOMAIN h : h[i][2] = name}
      first == IF hits = {} THEN 0 ELSE CHOOSE i \in hits : \A j \in hits : i <= j
  IN heapify([j \in 1 .. (Len(h) - (IF first = 0 THEN 0 ELSE 1)) |->
                IF first = 0 \/ j < first THEN h[j] ELSE h[j + 1]])

\* DepartmentHeap.remove
heap_remove(h, name) ==
  LET other(pn) == pn[2] # name
  IN heapify(SelectSeq(h, other))

\* DepartmentHeap.edit_priority
edit_priority(h, name, new_priority) == heap_add(heap_remove(h, name), new_priority, name)

\* sorted(): the list in ascending order, equal items in the order they had.
RECURSIVE insert_sorted(_, _)
insert_sorted(s, x) ==
  IF s = <<>> THEN <<x>>
  ELSE IF Lt(x, Head(s)) THEN <<x>> \o s
  ELSE <<Head(s)>> \o insert_sorted(Tail(s), x)

RECURSIVE sorted(_)
sorted(s) ==
  IF s = <<>> THEN <<>>
  ELSE insert_sorted(sorted(SubSeq(s, 1, Len(s) - 1)), s[Len(s)])

\* The heap's list as it lies: what C10 rules out.
get_all_unsorted(h) == h

\* DepartmentHeap.get_all
get_all(h) == sorted(h)

(***************************************************************************)
(* The request handlers and the data file                                  *)
(***************************************************************************)
\* The program's state: the hierarchy, the heap and the data file's content.
App(m, h, file) == [m |-> m, heap |-> h, file |-> file]

\* The priority add_dept takes when the request gives none.
DefaultPriority == 999

\* save_data: the file is rewritten with to_dict() and get_all().  When
\* to_dict() raises, the file is not opened and keeps its content.
save_data(a) ==
  LET t == to_dict(a.m)
  IN IF t.ok
     THEN [a EXCEPT !.file = [hierarchy |-> t.dict, heap |-> get_all(a.heap)]]
     ELSE a

Missing(name) == name = NoneStr \/ name = EmptyStr

\* add_dept: returns [ok, a].  A priority the request lacks is None.
add_dept(a, name, parent, head, employees, budget, perf, priority) ==
  IF Missing(name) THEN [ok |-> FALSE, a |-> a]
  ELSE
    LET r == add(a.m, name, IF parent = EmptyStr THEN NoneStr ELSE parent,
                 head, int(employees), float(budget), float(perf))
    IN IF ~r.ok THEN [ok |-> FALSE, a |-> a]
       ELSE [ok |-> TRUE,
             a |-> save_data([a EXCEPT
                      !.m = r.m,
                      !.heap = heap_add(@, IF priority = NoneNum THEN DefaultPriority
                                           ELSE int(priority).v, name)])]

\* edit_dept: returns [ok, a].
edit_dept(a, name, new_name, head, employees, budget, perf, parent, priority) ==
  IF Missing(name) THEN [ok |-> FALSE, a |-> a]
  ELSE
    LET r == edit(a.m, name, new_name, head, employees, budget, perf, parent)
        a1 == [a EXCEPT !.m = r.m]
        a2 == IF priority # NoneNum
              THEN [a1 EXCEPT !.heap =
                      edit_priority(@, IF Missing(new_name) THEN name ELSE new_name,
                                    int(priority).v)]
              ELSE a1
    IN IF ~r.ok THEN [ok |-> FALSE, a |-> a1]
       ELSE [ok |-> TRUE, a |-> save_data(a2)]

\* delete_dept: returns [ok, a].
delete_dept(a, name) ==
  IF Missing(name) THEN [ok |-> FALSE, a |-> a]
  ELSE
    LET r == delete(a.m, name)
    IN IF ~r.ok THEN [ok |-> FALSE, a |-> a]
       ELSE [ok |-> TRUE,
             a |-> save_data([a EXCEPT !.m = r.m, !.heap = heap_remove(@, name)])]

\* json.dump then json.load of what save_data writes: dicts, lists, strings
\* and numbers come back as they were (an int as an int, a float as a
\* float); a tuple comes back as a list.
PyList(items) == [list |-> items]

json_load(file) ==
  [hierarchy |-> file.hierarchy,
   heap |-> [i \in DOMAIN file.heap |-> PyList(file.heap[i])]]

\* load_data's loop over the saved pairs: each is unpacked and added.
RECURSIVE load_heap(_, _)
load_heap(h, ps) ==
  IF ps = <<>> THEN h
  ELSE load_heap(heap_add(h, Head(ps).list[1], Head(ps).list[2]), Tail(ps))

\* load_data, the data file being there: a hierarchy and a heap, empty as
\* constructed, are filled from the file.
load_data(file) ==
  LET data == json_load(file)
  IN [m |-> build(Fresh, data.hierarchy, NoneStr), heap |-> load_heap(<<>>, data.heap)]

(***************************************************************************)
(* Requests made of the hierarchy                                          *)
(***************************************************************************)
\* The attribute values an add is made with: head, employees, budget, perf.
\* No two fields hold the same value.
OneAttrs == {<<"h1", I(1), F(2), F(3)>>}

TwoAttrs == OneAttrs \cup {<<"h2", I(4), F(5), F(6)>>}

\* The field values an edit is made with; a None field is left as it is.
NoFields == [head |-> NoneStr, employees |-> NoneNum, budget |-> NoneNum, perf |-> NoneNum]

EditFields ==
  {NoFields,
   [NoFields EXCEPT !.head = "new head"],
   [NoFields EXCEPT !.employees = F(7)],
   [NoFields EXCEPT !.budget = I(8)],
   [NoFields EXCEPT !.perf = I(9)]}

H == Mem(obj, root, nodes)

\* The last request: its operation and result; of a request that succeeded,
\* the name it was made for (the new name after a rename), whether it gave a
\* parent and whether it took more than one name out of the mapping; whether
\* it reached the rename; whether it gave field values.
Call(op, name, ok, ren, par, fld, cascade) ==
  [op |-> op, name |-> IF ok THEN name ELSE NoneStr, ok |-> ok, ren |-> ren,
   par |-> ok /\ par, fld |-> fld, cascade |-> cascade]

SetMem(m) ==
  IF m = H THEN UNCHANGED <<obj, root, nodes>>
  ELSE LET c == Collect(m)
       IN obj' = c.obj /\ root' = c.root /\ nodes' = c.nodes

Init ==
  /\ obj = [i \in NodeIds |-> Blank]
  /\ root = NoneObj
  /\ nodes = <<>>
  /\ heap = <<>>
  /\ data_file = [hierarchy |-> EmptyDict, heap |-> <<>>]
  /\ last = Call("init", NoneStr, TRUE, FALSE, FALSE, FALSE, FALSE)

AddOver(names, attrs) ==
  \E name \in names, parent \in names \cup {NoneStr}, a \in attrs :
    /\ LET r == add(H, name, parent, a[1], a[2], a[3], a[4])
       IN /\ SetMem(r.m)
          /\ last' = Call("add", name, r.ok, FALSE, parent # NoneStr, FALSE, FALSE)
    /\ UNCHANGED <<heap, data_file>>

DeleteOver(names) ==
  \E name \in names :
    /\ LET r == delete(H, name)
       IN /\ ~r.diverged
          /\ SetMem(r.m)
          /\ last' = Call("delete", name, r.ok, FALSE, FALSE, FALSE,
                          Cardinality(DOMAIN nodes \ DOMAIN r.m.nodes) > 1)
    /\ UNCHANGED <<heap, data_file>>

EditOver(names, parents, fields) ==
  \E name \in names, new_name \in names \cup {NoneStr}, parent \in parents, f \in fields :
    /\ LET r == edit(H, name, new_name, f.head, f.employees, f.budget, f.perf, parent)
       IN /\ SetMem(r.m)
          /\ last' = Call("edit",
                          IF Renaming(name, new_name) THEN new_name ELSE name,
                          r.ok, name \in DOMAIN nodes /\ Renaming(name, new_name),
                          parent # NoneStr, f # NoFields, FALSE)
    /\ UNCHANGED <<heap, data_file>>

\* Requests on the tree: every add, delete, rename and reparent.
Add == AddOver(Names, OneAttrs)

Delete == DeleteOver(Names)

Edit == EditOver(Names, Names \cup {NoneStr, EmptyStr}, {NoFields})

Next == Add \/ Delete \/ Edit

Spec == Init /\ [][Next]_vars

\* Requests that add and delete only, with a choice of attribute values.
AddAD == AddOver(Names, TwoAttrs)

DeleteAD == DeleteOver(Names)

NextAD == AddAD \/ DeleteAD

SpecAD == Init /\ [][NextAD]_vars

\* Requests that leave every parent as it is, with a choice of field values.
TwoNames == {NameOrder[1], NameOrder[2]}

AddF == AddOver(TwoNames, OneAttrs)

DeleteF == DeleteOver(TwoNames)

EditF == EditOver(TwoNames, {NoneStr}, EditFields)

NextF == AddF \/ DeleteF \/ EditF

SpecFields == Init /\ [][NextF]_vars

\* The number of paths of child links, of at most fuel links, from a to b.
RECURSIVE SumSeq(_)
SumSeq(q) == IF q = <<>> THEN 0 ELSE Head(q) + SumSeq(Tail(q))

RECURSIVE Paths(_, _, _, _)
Paths(o, a, b, fuel) ==
  IF fuel = 0 THEN 0
  ELSE SumSeq([j \in DOMAIN o[a].children |->
                 (IF o[a].children[j] = b THEN 1 ELSE 0)
                   + Paths(o, o[a].children[j], b, fuel - 1)])

ReachableOnce(k) ==
  root # NoneObj /\ Paths(obj, root, nodes[k], Cardinality(NodeIds)) = 1

(***************************************************************************)
(* Requests made of the heap alone                                         *)
(***************************************************************************)
\* Most pairs the heap holds at once.
MaxHeap == 3

\* The priorities requests are made with.
Priorities == {1, 2}

HeapAdd ==
  \E p \in Priorities, name \in Names :
    /\ Len(heap) < MaxHeap
    /\ heap' = heap_add(heap, p, name)
    /\ last' = Call("heap.add", name, TRUE, FALSE, FALSE, FALSE, FALSE)
    /\ UNCHANGED <<obj, root, nodes, data_file>>

HeapRemove ==
  \E name \in Names :
    /\ heap' = heap_remove(heap, name)
    /\ last' = Call("heap.remove", name, TRUE, FALSE, FALSE, FALSE, FALSE)
    /\ UNCHANGED <<obj, root, nodes, data_file>>

HeapEditPriority ==
  \E p \in Priorities, name \in Names :
    /\ Len(heap_remove(heap, name)) < MaxHeap
    /\ heap' = edit_priority(heap, name, p)
    /\ last' = Call("heap.edit_priority", name, TRUE, FALSE, FALSE, FALSE, FALSE)
    /\ UNCHANGED <<obj, root, nodes, data_file>>

NextHeap == HeapAdd \/ HeapRemove \/ HeapEditPriority

SpecHeap == Init /\ [][NextHeap]_vars

(***************************************************************************)
(* Requests made of the handlers                                           *)
(***************************************************************************)
\* Requests for two names that leave every parent as it is.
A == App(H, heap, data_file)

\* The field values an edit request gives: none, or all four.
AllFields == [head |-> "new head", employees |-> F(7), budget |-> I(8), perf |-> I(9)]

SetApp(a) ==
  /\ SetMem(a.m)
  /\ heap' = a.heap
  /\ data_file' = a.file

AddDept ==
  \E name \in TwoNames, parent \in TwoNames \cup {NoneStr}, p \in {NoneNum, I(1)} :
    /\ Len(heap) < MaxHeap
    /\ LET r == add_dept(A, name, parent, "h1", I(1), I(2), I(3), p)
       IN /\ SetApp(r.a)
          /\ last' = Call("add_dept", name, r.ok, FALSE, parent # NoneStr, FALSE, FALSE)

DeleteDept ==
  \E name \in TwoNames :
    LET r == delete_dept(A, name)
    IN /\ SetApp(r.a)
       /\ last' = Call("delete_dept", name, r.ok, FALSE, FALSE, FALSE,
                       Cardinality(DOMAIN nodes \ DOMAIN r.a.m.nodes) > 1)

EditDept ==
  \E name \in TwoNames, new_name \in TwoNames \cup {NoneStr},
     parent \in {NoneStr}, f \in {NoFields, AllFields},
     p \in {NoneNum, I(1), F(2)} :
    LET r == edit_dept(A, name, new_name, f.head, f.employees, f.budget, f.perf, parent, p)
    IN /\ Len(r.a.heap) <= MaxHeap
       /\ SetApp(r.a)
       /\ last' = Call("edit_dept",
                       IF Renaming(name, new_name) THEN new_name ELSE name,
                       r.ok, name \in DOMAIN nodes /\ Renaming(name, new_name),
                       parent # NoneStr, f # NoFields, FALSE)

NextApp == AddDept \/ DeleteDept \/ EditDept

SpecApp == Init /\ [][NextApp]_vars

(***************************************************************************)
(* Properties                                                              *)
(***************************************************************************)
\* C1: after any adds and deletes, every name in the mapping, except at most
\* one (the root), is reached from the root by exactly one path of child
\* links.
C1_AllButRootReachableOnce ==
  Cardinality({k \in DOMAIN nodes : ~ReachableOnce(k)}) <= 1

\* C2: no node is reached from itself by one or more child links.
C2_NoCycles ==
  \A i \in Live(H) : i \notin Descendants(obj, i)

\* C3: an edit that fails at the rename, the new name being taken, leaves
\* the hierarchy as it was, whatever field values it gave.
C3_ConflictLeavesUnchanged ==
  [][(last'.op = "edit" /\ ~last'.ok /\ last'.ren)
       => UNCHANGED <<obj, root, nodes>>]_vars

\* The parents a request can give.
AllParents == Names \cup {NoneStr, EmptyStr}

\* C9: in every state, an add with a name of the mapping, and a delete or an
\* edit with a name not in it, returns failure and the hierarchy it leaves is
\* the one it found.
C9_RejectedLeavesUnchanged ==
  /\ \A name \in DOMAIN nodes, parent \in AllParents, a \in TwoAttrs :
       add(H, name, parent, a[1], a[2], a[3], a[4]) = [ok |-> FALSE, m |-> H]
  /\ \A name \in Names \ DOMAIN nodes :
       /\ LET r == delete(H, name) IN ~r.ok /\ r.m = H
       /\ \A new_name \in Names \cup {NoneStr}, parent \in AllParents, f \in EditFields :
            edit(H, name, new_name, f.head, f.employees, f.budget, f.perf, parent)
              = [ok |-> FALSE, m |-> H]

\* C9's case: a delete of a name the mapping lacks has been refused while
\* the mapping holds other names.
C9_Witness ==
  last.op = "delete" /\ ~last.ok /\ DOMAIN nodes # {}

\* C4: in every state, delete(X) for a mapped X takes out of the mapping X
\* and the names of the nodes below X and no other name; every remaining
\* node is the object it was, with its name and attributes, and its child
\* sequence is the one it had without X, in the same order.
C4_DeleteRemovesSubtree ==
  \A X \in DOMAIN nodes :
    LET x == nodes[X]
        below == {X} \cup {obj[i].name : i \in Descendants(obj, x)}
        r == delete(H, X)
        notX(c) == c # x
    IN /\ r.ok /\ ~r.diverged
       /\ DOMAIN r.m.nodes = DOMAIN nodes \ below
       /\ \A k \in DOMAIN r.m.nodes :
            LET i == r.m.nodes[k]
            IN /\ i = nodes[k]
               /\ \A j \in DOMAIN r.m.obj[i].children :
                    r.m.obj[r.m.obj[i].children[j]].name # X
               /\ r.m.obj[i] = [obj[i] EXCEPT !.children = SelectSeq(@, notX)]

\* C4's case: a delete has taken a node and its descendants out of the
\* mapping and other nodes remain.
C4_Witness ==
  last.op = "delete" /\ last.ok /\ last.cascade /\ DOMAIN nodes # {}

\* A serialized tree with every name a replaced by b.
RECURSIVE Subst(_, _, _)
Subst(d, a, b) ==
  IF d = EmptyDict THEN d
  ELSE [d EXCEPT !.name = IF @ = a THEN b ELSE @,
                 !.children = [j \in DOMAIN @ |-> Subst(@[j], a, b)]]

\* C5: in every state, edit(name, new_name=Y) with Y not in the mapping and
\* nothing else given succeeds; the mapping holds Y for the same node and no
\* longer holds name; the node keeps its place, attributes and children;
\* serialize() is what it was with Y for name; and no child of a node that
\* the root or the mapping leads to carries the old name.
C5_RenameKeepsPlace ==
  \A name \in DOMAIN nodes, Y \in Names \ DOMAIN nodes :
    LET id == nodes[name]
        r == edit(H, name, Y, NoneStr, NoneNum, NoneNum, NoneNum, NoneStr)
        before == to_dict(H)
        after == to_dict(r.m)
    IN /\ r.ok
       /\ DOMAIN r.m.nodes = (DOMAIN nodes \ {name}) \cup {Y}
       /\ r.m.nodes[Y] = id
       /\ \A k \in DOMAIN nodes \ {name} : r.m.nodes[k] = nodes[k]
       /\ r.m.root = root
       /\ r.m.obj = [obj EXCEPT ![id].name = Y]
       /\ before.ok => after.ok /\ after.dict = Subst(before.dict, name, Y)
       /\ \A i \in Live(r.m) : \A j \in DOMAIN r.m.obj[i].children :
            r.m.obj[r.m.obj[i].children[j]].name # name

\* C5's case: a rename alone has been made of a node that has a parent and
\* children, and serialize() shows it.
C5_Witness ==
  /\ last.op = "edit" /\ last.ok /\ last.ren /\ ~last.par /\ ~last.fld
  /\ last.name \in DOMAIN nodes
  /\ obj[nodes[last.name]].children # <<>>
  /\ root # NoneObj /\ to_dict(H).ok
  /\ nodes[last.name] \in Descendants(obj, root)

\* How often pair x occurs in list s.
Count(s, x) == Cardinality({i \in DOMAIN s : s[i] = x})

\* C10: whatever adds, removes and priority edits were made, get_all() holds
\* every pair of the heap as often as the heap does, in ascending order of
\* priority and, among equal priorities, of name.
C10_GetAllSorted ==
  LET g == get_all(heap)
  IN /\ Len(g) = Len(heap)
     /\ \A i \in DOMAIN heap : Count(g, heap[i]) = Count(heap, heap[i])
     /\ \A i \in DOMAIN g : \A j \in DOMAIN g :
          i < j => (g[i][1] < g[j][1]
                    \/ (g[i][1] = g[j][1] /\ NameRank(g[i][2]) <= NameRank(g[j][2])))

\* C10's case: the heap's list is not in sorted order and holds two pairs of
\* the same priority, after a remove.
C10_Witness ==
  /\ last.op = "heap.remove"
  /\ Len(heap) >= 3
  /\ heap # get_all(heap)
  /\ \E i \in DOMAIN heap : \E j \in DOMAIN heap :
       i # j /\ heap[i][1] = heap[j][1] /\ heap[i][2] # heap[j][2]

\* C6: after every request the names of the heap's pairs are the names of
\* the mapping.
C6_HeapNamesAreMappedNames ==
  {heap[i][2] : i \in DOMAIN heap} = DOMAIN nodes

\* C8: after every request the data file holds serialize() of the tree and
\* the heap's sorted list.
C8_FileIsMemory ==
  /\ to_dict(H).ok
  /\ data_file = [hierarchy |-> to_dict(H).dict, heap |-> get_all(heap)]

\* C7: in every state serialize() returns, and a fresh hierarchy built from
\* what it returns serializes to the same.
C7_RoundTrip ==
  LET s == to_dict(H)
  IN s.ok /\ to_dict(build(Fresh, s.dict, NoneStr)) = s

\* The pairs requests can put in the heap.
Pairs == {<<p, n>> : p \in Priorities \cup {DefaultPriority}, n \in Names}

\* How many pairs of list s carry the name.
CountName(s, name) == Cardinality({i \in DOMAIN s : s[i][2] = name})

\* C11: in every state of the heap, remove(name) leaves no pair of the name
\* and every pair of another name as often as it was, and leaves the list as
\* it is when the name has no pair; edit_priority(name, p) leaves one pair of
\* the name, (p, name), and every pair of another name as often as it was.
C11_RemoveAndEditPriority ==
  \A name \in Names :
    /\ LET r == heap_remove(heap, name)
       IN /\ CountName(r, name) = 0
          /\ \A x \in Pairs : x[2] # name => Count(r, x) = Count(heap, x)
          /\ Len(r) = Len(heap) - CountName(heap, name)
          /\ CountName(heap, name) = 0 => r = heap
    /\ \A p \in Priorities :
         LET e == edit_priority(heap, name, p)
         IN /\ CountName(e, name) = 1
            /\ Count(e, <<p, name>>) = 1
            /\ \A x \in Pairs : x[2] # name => Count(e, x) = Count(heap, x)
            /\ Len(e) = Len(heap) - CountName(heap, name) + 1

\* C11's case: a remove has left the heap with two pairs of one name, of
\* different priorities, and a pair of another name.
C11_Witness ==
  /\ last.op = "heap.remove"
  /\ \E i \in DOMAIN heap : \E j \in DOMAIN heap : \E k \in DOMAIN heap :
       /\ heap[i][2] = heap[j][2] /\ heap[i][1] # heap[j][1]
       /\ heap[k][2] # heap[i][2]

\* C12: in every state, when the root is set its name is a key of the
\* mapping for the root node itself, and every node reached from the root by
\* child links is a node of the mapping.
C12_RootAndBelowAreMapped ==
  root # NoneObj =>
    /\ obj[root].name \in DOMAIN nodes
    /\ nodes[obj[root].name] = root
    /\ Closure(obj, {root}) \subseteq Range(nodes)

\* How often object x occurs in the child sequences of the mapped nodes.
Occurrences(m, x) ==
  LET ks == SortedNames(DOMAIN m.nodes)
  IN SumSeq([j \in DOMAIN ks |-> Count(m.obj[m.nodes[ks[j]]].children, x)])

\* C13: in every state, each node of the mapping occurs at most once in the
\* child sequences of the mapped nodes taken together, and the root, when
\* set, occurs in no child sequence.
C13_OneParentAndRootHasNone ==
  /\ \A k \in DOMAIN nodes : Occurrences(H, nodes[k]) <= 1
  /\ root # NoneObj => \A i \in Live(H) : root \notin Range(obj[i].children)

\* The attributes of a node.
Attrs(n) ==
  [name |-> n.name, head |-> n.head, employees |-> n.employees,
   budget |-> n.budget, perf |-> n.perf]

\* Hierarchies with the same names in the mapping, each with the same
\* attributes and the same children by name in the same order, and the same
\* name at the root.
SameHierarchy(m1, m2) ==
  /\ DOMAIN m1.nodes = DOMAIN m2.nodes
  /\ \A k \in DOMAIN m1.nodes :
       /\ Attrs(m1.obj[m1.nodes[k]]) = Attrs(m2.obj[m2.nodes[k]])
       /\ ChildNames(m1.obj, m1.nodes[k]) = ChildNames(m2.obj, m2.nodes[k])
  /\ (m1.root = NoneObj) = (m2.root = NoneObj)
  /\ m1.root # NoneObj => m1.obj[m1.root].name = m2.obj[m2.root].name

\* Heaps with the same pairs, each as often.
SamePairs(h1, h2) ==
  /\ Len(h1) = Len(h2)
  /\ \A i \in DOMAIN h1 : Count(h1, h1[i]) = Count(h2, h1[i])

\* C14: in every state the handlers reach, save_data followed by load_data
\* into a fresh hierarchy and heap gives a hierarchy with the same names,
\* attributes, parents and child order, and a heap with the same pairs.
C14_LosslessReload ==
  LET l == load_data(save_data(A).file)
  IN SameHierarchy(l.m, H) /\ SamePairs(l.heap, heap)

\* C15: in every state, add of a name the mapping lacks succeeds and
\* registers the name for a new node with the attributes given and no
\* children; when the parent is a name of the mapping the new node is
\* appended to that node's children, and otherwise it becomes the root if
\* and only if no root was set; a root that was set stays, every other name
\* maps to the node it did, and every other node is as it was.
C15_AddFrame ==
  \A name \in Names \ DOMAIN nodes, parent \in AllParents, a \in TwoAttrs :
    LET r == add(H, name, parent, a[1], a[2], a[3], a[4])
        id == r.m.nodes[name]
        attached == parent \in DOMAIN nodes
    IN /\ r.ok
       /\ DOMAIN r.m.nodes = DOMAIN nodes \cup {name}
       /\ id \notin Live(H)
       /\ r.m.obj[id] = DepartmentNode(name, a[1], a[2], a[3], a[4])
       /\ \A k \in DOMAIN nodes : r.m.nodes[k] = nodes[k]
       /\ root # NoneObj => r.m.root = root
       /\ (r.m.root = id) <=> (~attached /\ root = NoneObj)
       /\ \A i \in Live(H) :
            r.m.obj[i] = IF attached /\ i = nodes[parent]
                         THEN [obj[i] EXCEPT !.children = Append(@, id)]
                         ELSE obj[i]

\* C16: in every state, edit(name, parent=P) for mapped names name and P,
\* P another node and not below name, succeeds; P's children are the ones it
\* had without name, in their order, followed by name; every other node's
\* children are the ones it had without name, in their order; and name and
\* the nodes below it are as they were.
C16_ReparentMovesToLast ==
  \A name \in DOMAIN nodes : \A P \in DOMAIN nodes \ {name} :
    LET id == nodes[name]
        p == nodes[P]
        r == edit(H, name, NoneStr, NoneStr, NoneNum, NoneNum, NoneNum, P)
        notId(c) == c # id
    IN (p # id /\ p \notin Descendants(obj, id)) =>
         /\ r.ok
         /\ r.m.nodes = nodes
         /\ r.m.obj[p] = [obj[p] EXCEPT !.children = Append(SelectSeq(@, notId), id)]
         /\ \A i \in Live(r.m) \ {p} :
              r.m.obj[i] = [obj[i] EXCEPT !.children = SelectSeq(@, notId)]
         /\ \A i \in {id} \cup Descendants(obj, id) : r.m.obj[i] = obj[i]

\* Every choice of fields an edit can give: each one given or left out.
FieldChoices ==
  [head : {NoneStr, "new head"}, employees : {NoneNum, F(7)},
   budget : {NoneNum, I(8)}, perf : {NoneNum, I(9)}]

\* C17: in every state, edit of a mapped name with no new name and no
\* parent succeeds; each field given holds the value given, as int or
\* float; each field left out, the node's name and its children are as they
\* were; and every other node, the mapping and the root are as they were.
C17_PartialUpdateFrame ==
  \A name \in DOMAIN nodes, f \in FieldChoices :
    LET id == nodes[name]
        r == edit(H, name, NoneStr, f.head, f.employees, f.budget, f.perf, NoneStr)
        n == r.m.obj[id]
    IN /\ r.ok
       /\ r.m.nodes = nodes /\ r.m.root = root
       /\ \A i \in NodeIds \ {id} : r.m.obj[i] = obj[i]
       /\ n.name = obj[id].name /\ n.children = obj[id].children
       /\ n.head = IF f.head = NoneStr THEN obj[id].head ELSE f.head
       /\ n.employees = IF f.employees = NoneNum THEN obj[id].employees ELSE I(f.employees.v)
       /\ n.budget = IF f.budget = NoneNum THEN obj[id].budget ELSE F(f.budget.v)
       /\ n.perf = IF f.perf = NoneNum THEN obj[id].perf ELSE F(f.perf.v)

\* C17's case: an edit that gave one field and nothing else has succeeded
\* on a node with a child; the node holds the new head and the employees,
\* budget and perf it was added with, and the child is as it was added.
C17_Witness ==
  /\ last.op = "edit" /\ last.ok /\ last.fld /\ ~last.ren /\ ~last.par
  /\ last.name \in DOMAIN nodes
  /\ LET n == obj[nodes[last.name]]
     IN /\ n.head = "new head" /\ n.employees = I(1) /\ n.budget = F(2) /\ n.perf = F(3)
        /\ \E j \in DOMAIN n.children :
             /\ n.children[j] # nodes[last.name]
             /\ obj[n.children[j]].head = "h1"

\* C18: in every state, cycles of child links included, delete's loop over
\* its worklist ends, and no name of the mapping is on the worklist twice.
C18_DeleteTerminates ==
  \A name \in Names :
    LET r == delete(H, name)
    IN /\ ~r.diverged
       /\ \A k \in DOMAIN nodes : Count(r.to_delete, k) <= 1
       /\ name \in DOMAIN nodes => r.ok /\ r.to_delete[1] = name

\* C18's case: a reparent has put the node it moved on a cycle of child
\* links through another node, and a delete of it has both on its worklist.
C18_Witness ==
  /\ last.op = "edit" /\ last.ok /\ last.par
  /\ last.name \in DOMAIN nodes
  /\ LET id == nodes[last.name]
     IN /\ id \in Descendants(obj, id)
        /\ id \notin Range(obj[id].children)
        /\ Len(delete(H, last.name).to_delete) >= 2

====
